---- MODULE Spec2Model ----
(***************************************************************************)
(* Shipping Errors Dashboard (asst4.py).                                   *)
(*                                                                         *)
(* The script is a Streamlit page: it is evaluated top to bottom once when *)
(* the session starts and again on every widget interaction.  One          *)
(* evaluation loads shipments.csv, derives delivery_date / dest_lat /      *)
(* dest_lon, emits the missing-coordinate warning, reads the three sidebar *)
(* widgets, filters by driver and computes the metrics and the tables      *)
(* behind the four charts.                                                 *)
(*                                                                         *)
(* Representation.  A dataframe is a sequence of rows, a row is a record   *)
(* whose fields are the columns.  A nullable cell is None (NaN / NaT /     *)
(* Python None) or Some(v); the status column is plain text and the        *)
(* destination column is populated in every file of the model.            *)
(* Timestamps are counted in units of 1/UnitsPerDay day, dates in whole    *)
(* days, coordinates in 1/10000 degree, percentages in 1/100 percent (two  *)
(* decimals) and the transit metric in 1/10 day (one decimal).  The result *)
(* of a groupby is a set of rows (one per key).                            *)
(***************************************************************************)
EXTENDS Integers, Sequences, FiniteSets, TLC

\* ------------------------------------------------------------------ bounds
\* rows of a file
MaxRows == 2
\* rows of a file made of few kinds of rows
MaxRowsLong == 5

\* --------------------------------------------------------- nullable cells
None == <<>>
Some(v) == <<v>>
IsNull(c) == c = None
NotNull(c) == c # None
Val(c) == c[1]

\* Timestamp resolution of the model: delivery_time / pickup_time are counted
\* in quarter days, so that .dt.date is a real conversion.
UnitsPerDay == 4

\* ------------------------------------------------------ arithmetic helpers
\* Round-half-even of num / den (den > 0), as numpy's round and Python's
\* float formatting do on exactly representable ties.
RoundHalfEven(num, den) ==
    LET q == num \div den
        r == num % den
    IN  IF 2 * r < den THEN q
        ELSE IF 2 * r > den THEN q + 1
        ELSE IF q % 2 = 0 THEN q ELSE q + 1

RECURSIVE SumSeq(_)
SumSeq(s) == IF s = <<>> THEN 0 ELSE Head(s) + SumSeq(Tail(s))

Range(s) == {s[i] : i \in DOMAIN s}

\* Series.unique(): the distinct values in order of first appearance
\* (NaN is kept as a value).
RECURSIVE Unique(_)
Unique(s) ==
    IF s = <<>> THEN <<>>
    ELSE LET u == Unique(SubSeq(s, 1, Len(s) - 1))
             x == s[Len(s)]
         IN  IF x \in Range(u) THEN u ELSE Append(u, x)

\* df[col] as a sequence of cells
Column(df, col) == [i \in DOMAIN df |-> df[i][col]]

\* df.columns (the frames of the model are never empty at load)
Columns(df) == DOMAIN df[1]

\* --------------------------------------------------------------- enrichment
\* Series.dt.date: the calendar day of a timestamp, NaT stays NaT.
DtDate(t) == IF IsNull(t) THEN None ELSE Some(Val(t) \div UnitsPerDay)

\* lines 11-13: add delivery_date unless the file already has the column
AddDeliveryDate(df) ==
    IF "delivery_date" \notin Columns(df)
    THEN [i \in DOMAIN df |->
            [c \in Columns(df) \cup {"delivery_date"} |->
                IF c = "delivery_date" THEN DtDate(df[i].delivery_time) ELSE df[i][c]]]
    ELSE df

\* lines 16-22
city_coords ==
    [ c \in {"New York", "Los Angeles", "Houston", "Phoenix", "Chicago"} |->
        CASE c = "New York"    -> [lat |-> 407128, lon |-> -740060]
          [] c = "Los Angeles" -> [lat |-> 340522, lon |-> -1182437]
          [] c = "Houston"     -> [lat |-> 297604, lon |-> -953698]
          [] c = "Phoenix"     -> [lat |-> 334484, lon |-> -1120740]
          [] c = "Chicago"     -> [lat |-> 418781, lon |-> -876298] ]

\* dict.get(key) -> None when the key is absent; dict.get(cell, {}) -> {}
\* when the cell is empty or its text is no key
EmptyDict == <<>>
DictGetOr(d, k, default) ==
    IF NotNull(k) /\ Val(k) \in DOMAIN d THEN d[Val(k)] ELSE default
DictGet(d, k) == IF k \in DOMAIN d THEN Some(d[k]) ELSE None

\* line 23 with a default coordinate: .get("lat", 0)
DestLatDefault(x) == Some(DictGetOr(DictGetOr(city_coords, x, EmptyDict), Some("lat"), 0))

\* line 23: lambda x: city_coords.get(x, {}).get("lat")
DestLat(x) == DictGet(DictGetOr(city_coords, x, EmptyDict), "lat")

\* line 24 with the key misspelt
DestLonWrongKey(x) == DictGet(DictGetOr(city_coords, x, EmptyDict), "lng")

\* line 24: lambda x: city_coords.get(x, {}).get("lon")
DestLon(x) == DictGet(DictGetOr(city_coords, x, EmptyDict), "lon")

\* lines 23-24
AddCoords(df) ==
    [i \in DOMAIN df |->
        [c \in Columns(df) \cup {"dest_lat", "dest_lon"} |->
            CASE c = "dest_lat" -> DestLat(df[i].destination)
              [] c = "dest_lon" -> DestLon(df[i].destination)
              [] OTHER -> df[i][c]]]

\* lines 6-24: the frame after load and derived-column computation
Enrich(file) == AddCoords(AddDeliveryDate(file))

\* line 27 without .unique()
MissingCoordsDup(df) ==
    Column(SelectSeq(df, LAMBDA r : IsNull(r.dest_lat)), "destination")

\* line 27: shipments_df[shipments_df["dest_lat"].isna()]["destination"].unique()
MissingCoords(df) ==
    Unique(Column(SelectSeq(df, LAMBDA r : IsNull(r.dest_lat)), "destination"))

\* lines 28-29: the warnings emitted by one evaluation; a message is the
\* list of names that ', '.join writes after "Missing coordinates for: "
Warnings(df) ==
    LET missing_coords == MissingCoords(df)
    IN  IF Len(missing_coords) > 0 THEN << missing_coords >> ELSE << >>

\* ------------------------------------------------------- filter by driver
\* Series == scalar, element by element: NaN equals nothing
EqCell(a, b) == NotNull(a) /\ NotNull(b) /\ a = b

All == Some("All")

\* line 33: options=["All"] + list(shipments_df["driver_id"].unique())
DriverOptions(df) == {All} \cup Range(Unique(Column(df, "driver_id")))

\* lines 38-40 with the filter left out
FilterNone(df, sel) == df

\* lines 38-40: the frame the metrics and charts are computed from
FilterByDriver(df, sel) ==
    IF sel # All
    THEN SelectSeq(df, LAMBDA r : EqCell(r.driver_id, sel))
    ELSE df

\* lines 38-40 with the selection assigned to shipments_df itself
ShipmentsOverwritten(df, sel) ==
    IF sel # All
    THEN SelectSeq(df, LAMBDA r : EqCell(r.driver_id, sel))
    ELSE df

\* lines 38-40: shipments_df after the filter step; the selection is taken
\* on a copy, so shipments_df keeps the loaded frame
ShipmentsAfterFilter(df, sel) == df

\* -------------------------------------------------------------- KPI metrics
WithStatus(df, s) == SelectSeq(df, LAMBDA r : r.status = s)

\* lines 43-44: filtered[filtered["status"] == s].shape[0]
CountStatus(df, s) == Len(WithStatus(df, s))

NA == << "N/A" >>
Days(tenths) == << tenths, "days" >>

\* line 47 with the null test taken over the whole filtered frame
TransitComputableAnyRow(filtered_df, missing_shipments) ==
    /\ missing_shipments # << >>
    /\ \A i \in DOMAIN filtered_df : NotNull(filtered_df[i].pickup_time)
    /\ \A i \in DOMAIN filtered_df : NotNull(filtered_df[i].delivery_time)

\* line 47: not empty and pickup_time.notnull().all() and delivery_time.notnull().all()
TransitComputable(filtered_df, missing_shipments) ==
    /\ missing_shipments # << >>
    /\ \A i \in DOMAIN missing_shipments : NotNull(missing_shipments[i].pickup_time)
    /\ \A i \in DOMAIN missing_shipments : NotNull(missing_shipments[i].delivery_time)

\* lines 46-52: f"{mean(delivery_time - pickup_time) / 86400:.1f} days" or "N/A"
AvgTransitText(filtered_df) ==
    LET missing_shipments == WithStatus(filtered_df, "Missing")
    IN  IF TransitComputable(filtered_df, missing_shipments)
        THEN LET transit_times ==
                    [i \in DOMAIN missing_shipments |->
                        Val(missing_shipments[i].delivery_time)
                          - Val(missing_shipments[i].pickup_time)]
             IN  Days(RoundHalfEven(10 * SumSeq(transit_times),
                                    Len(missing_shipments) * UnitsPerDay))
        ELSE NA

\* line 62: px.pie(filtered, names="status") draws one slice per status with
\* the number of rows of that status
StatusCounts(df) ==
    { [status |-> s, count |-> CountStatus(df, s)] : s \in Range(Column(df, "status")) }

\* ------------------------------------------------------- groupby and merge
\* the keys of df.groupby(col): rows whose key is null are dropped (dropna)
GroupKeys(df, col) == { k \in Range(Column(df, col)) : NotNull(k) }

Group(df, col, k) == SelectSeq(df, LAMBDA r : r[col] = k)

\* df.groupby(col).size().reset_index(name=name)
GroupSize(df, col, name) ==
    { [c \in {col, name} |-> IF c = col THEN k ELSE Len(Group(df, col, k))]
        : k \in GroupKeys(df, col) }

\* the "first" aggregation: the first non-null cell of the group, else null
First(cells) ==
    LET present == SelectSeq(cells, NotNull)
    IN  IF present = << >> THEN None ELSE Head(present)

\* (count / total * 100).round(2), in hundredths of a percent
Percent(count, total) == RoundHalfEven(count * 10000, total)

\* lines 66-73: the table behind the grouped bar chart
IncidentByGroup(filtered_df, breakdown_type) ==
    LET incidents == SelectSeq(filtered_df,
                               LAMBDA r : r.status \in {"Missing", "Damaged"})
    IN  { [c \in {breakdown_type, "status", "count"} |->
             CASE c = breakdown_type -> k
               [] c = "status" -> s
               [] c = "count" -> Len(SelectSeq(incidents,
                                     LAMBDA r : r[breakdown_type] = k /\ r.status = s))]
          : <<k, s>> \in { <<incidents[i][breakdown_type], incidents[i].status>>
                              : i \in { j \in DOMAIN incidents :
                                          NotNull(incidents[j][breakdown_type]) } } }

BarTable(filtered_df, breakdown_type) ==
    LET total_by_group == GroupSize(filtered_df, breakdown_type, "total")
        incident_by_group == IncidentByGroup(filtered_df, breakdown_type)
        merged == { l @@ r : <<l, r>> \in
                      { p \in incident_by_group \X total_by_group :
                          p[1][breakdown_type] = p[2][breakdown_type] } }
    IN  { m @@ [percent |-> Percent(m.count, m.total)] : m \in merged }

\* lines 82-83: Missing shipments counted by delivery_date
TrendData(filtered_df) ==
    GroupSize(WithStatus(filtered_df, "Missing"), "delivery_date", "count")

\* ------------------------------------------------- map: % incident by destination
\* lines 89-93: one row per destination with its row count and coordinates
TotalShipments(filtered_df) ==
    { [destination |-> d,
       total |-> Len(Group(filtered_df, "destination", d)),
       lat |-> First(Column(Group(filtered_df, "destination", d), "dest_lat")),
       lon |-> First(Column(Group(filtered_df, "destination", d), "dest_lon"))]
        : d \in GroupKeys(filtered_df, "destination") }

\* lines 94-99: rows of the selected status counted by destination
StatusShipments(filtered_df, status_type) ==
    GroupSize(WithStatus(filtered_df, status_type), "destination", "incident")

\* line 100 with how="inner": destinations without a match are dropped
MergeOnDestinationInner(total_shipments, status_shipments) ==
    { l @@ [incident |-> Some(r.incident)] : <<l, r>> \in
        { p \in total_shipments \X status_shipments :
            p[1].destination = p[2].destination } }

\* line 100: pd.merge(total_shipments, status_shipments, on="destination",
\* how="left"); a destination without a match keeps its row, incident is NaN
MergeOnDestination(total_shipments, status_shipments) ==
    { l @@ [incident |->
              IF \E r \in status_shipments : r.destination = l.destination
              THEN Some((CHOOSE r \in status_shipments :
                            r.destination = l.destination).incident)
              ELSE None]
        : l \in total_shipments }

\* line 101 left out: NaN stays
FillNaKeep(cell) == cell

\* line 101: fillna(0)
FillNa0(cell) == IF IsNull(cell) THEN Some(0) ELSE cell

\* line 102: (incident / total * 100).round(2); NaN stays NaN
PercentIncident(incident, total) ==
    IF IsNull(incident) THEN None ELSE Some(Percent(Val(incident), total))

\* lines 88-102: the table handed to px.scatter_mapbox
MapTable(filtered_df, status_type) ==
    LET merged == MergeOnDestination(TotalShipments(filtered_df),
                                     StatusShipments(filtered_df, status_type))
        filled == { [m EXCEPT !.incident = FillNa0(@)] : m \in merged }
    IN  { m @@ [percent_incident |-> PercentIncident(m.incident, m.total)]
            : m \in filled }

\* ---------------------------------------------------- one evaluation of the script
Script(file, sel, by, status_type) ==
    LET loaded == Enrich(file)
        kept == ShipmentsAfterFilter(loaded, sel)
        flt == FilterByDriver(loaded, sel)
    IN  [ shipments_df |-> kept,
          warnings |-> Warnings(loaded),
          filtered |-> flt,
          total_missing |-> CountStatus(flt, "Missing"),
          damaged_count |-> CountStatus(flt, "Damaged"),
          avg_transit_text |-> AvgTransitText(flt),
          status_fig |-> StatusCounts(flt),
          merged |-> BarTable(flt, by),
          trend_data |-> TrendData(flt),
          map_fig |-> MapTable(flt, status_type) ]

\* ------------------------------------------------------------------- inputs
Drivers == {Some("d1"), Some("d2")}
Statuses == {"Delivered", "Missing", "Damaged"}
BreakdownTypes == {"driver_id", "vehicle_id", "route_id"}
MapStatusTypes == {"Missing", "Damaged"}

Row(driver, vehicle, route, dest, status, pickup, delivery) ==
    [ driver_id |-> driver, vehicle_id |-> vehicle, route_id |-> route,
      destination |-> dest, status |-> status,
      pickup_time |-> pickup, delivery_time |-> delivery ]

\* shipments.csv rows that differ in driver, destination and status;
\* Boise and Miami are not in city_coords
RowsGeo ==
    { Row(d, Some("v1"), Some("r1"), c, s, Some(0), Some(6)) :
        d \in Drivers, c \in {Some("Chicago"), Some("Boise"), Some("Miami")},
        s \in Statuses }

\* few kinds of rows, for longer files: destination and status
RowsLong ==
    { Row(Some("d1"), Some("v1"), Some("r1"), c, s, Some(0), Some(6)) :
        c \in {Some("Chicago"), Some("Boise")}, s \in {"Delivered", "Missing"} }

\* rows that differ in status and in the grouping keys, empty cells included
RowsGroup ==
    { Row(d, Some("v1"), Some("r1"), Some("Chicago"), s, Some(0), Some(6)) :
        d \in Drivers \cup {None}, s \in Statuses }
    \cup
    { Row(Some("d1"), v[1], v[2], Some("Chicago"), s, Some(0), Some(6)) :
        v \in { <<None, Some("r2")>>, <<Some("v2"), None>> }, s \in Statuses }

\* rows that differ in the timestamps, empty cells included
RowsTime ==
    { Row(d, Some("v1"), Some("r1"), Some("Chicago"), s, t[1], t[2]) :
        d \in Drivers, s \in {"Delivered", "Missing"},
        t \in { <<Some(0), Some(1)>>, <<Some(0), Some(6)>>,
                <<None, Some(6)>>, <<Some(0), None>> } }

\* rows of a file that already carries a delivery_date column
RowsDated ==
    { Row(d, Some("v1"), Some("r1"), Some("Chicago"), s, Some(0), t[1])
        @@ [delivery_date |-> t[2]] :
        d \in Drivers, s \in {"Delivered", "Missing"},
        t \in { <<Some(6), Some(1)>>, <<Some(6), None>>,
                <<None, Some(0)>>, <<None, None>> } }

Frames(rows, n) == UNION { [1..k -> rows] : k \in 1..n }

FilesGeo == Frames(RowsGeo, MaxRows)
FilesLong == Frames(RowsLong, MaxRowsLong)
FilesGroup == Frames(RowsGroup, MaxRows)
FilesTime == Frames(RowsTime, MaxRows) \cup Frames(RowsDated, MaxRows)

\* -------------------------------------------------------------------- state
VARIABLES
    csv,               \* the content of shipments.csv
    selected_driver,   \* the three sidebar widgets
    breakdown_type,
    map_status_type,
    shipments_df,      \* the frame held by the session
    warnings,          \* st.warning calls of the last evaluation
    filtered,
    total_missing,
    damaged_count,
    avg_transit_text,
    status_fig,        \* the table behind each chart
    merged,
    trend_data,
    map_fig

widgets == << selected_driver, breakdown_type, map_status_type >>
outputs == << warnings, filtered, total_missing, damaged_count, avg_transit_text,
              status_fig, merged, trend_data, map_fig >>
vars == << csv, widgets, shipments_df, outputs >>

\* the first evaluation: every widget shows its first option
InitFrom(files) ==
    \E file \in files :
        \E r \in {Script(file, All, "driver_id", "Missing")} :
            /\ csv = file
            /\ selected_driver = All
            /\ breakdown_type = "driver_id"
            /\ map_status_type = "Missing"
            /\ shipments_df = r.shipments_df
            /\ warnings = r.warnings
            /\ filtered = r.filtered
            /\ total_missing = r.total_missing
            /\ damaged_count = r.damaged_count
            /\ avg_transit_text = r.avg_transit_text
            /\ status_fig = r.status_fig
            /\ merged = r.merged
            /\ trend_data = r.trend_data
            /\ map_fig = r.map_fig

\* the script runs top to bottom with the widgets at the given values
Evaluate(sel, by, status_type) ==
    \E r \in {Script(csv, sel, by, status_type)} :
        /\ selected_driver' = sel
        /\ breakdown_type' = by
        /\ map_status_type' = status_type
        /\ shipments_df' = r.shipments_df
        /\ warnings' = r.warnings
        /\ filtered' = r.filtered
        /\ total_missing' = r.total_missing
        /\ damaged_count' = r.damaged_count
        /\ avg_transit_text' = r.avg_transit_text
        /\ status_fig' = r.status_fig
        /\ merged' = r.merged
        /\ trend_data' = r.trend_data
        /\ map_fig' = r.map_fig
        /\ UNCHANGED csv

\* line 33: the user picks another entry of "Filter by Driver"
SelectDriver ==
    \E d \in DriverOptions(shipments_df) :
        /\ d # selected_driver
        /\ Evaluate(d, breakdown_type, map_status_type)

\* line 34: the user picks another entry of "Compare Missing/Damaged By"
SelectBreakdown ==
    \E b \in BreakdownTypes :
        /\ b # breakdown_type
        /\ Evaluate(selected_driver, b, map_status_type)

\* line 35: the user flips "Map Incident Type"
SelectMapStatus ==
    \E s \in MapStatusTypes :
        /\ s # map_status_type
        /\ Evaluate(selected_driver, breakdown_type, s)

\* the user reruns the page without touching a widget
Rerun == Evaluate(selected_driver, breakdown_type, map_status_type)

Next == SelectDriver \/ SelectBreakdown \/ SelectMapStatus \/ Rerun

Init == InitFrom(FilesGeo \cup FilesLong \cup FilesGroup \cup FilesTime)
InitGeo == InitFrom(FilesGeo)
InitLong == InitFrom(FilesLong)
InitGroup == InitFrom(FilesGroup)
InitTime == InitFrom(FilesTime)

Spec == Init /\ [][Next]_vars
SpecGeo == InitGeo /\ [][Next]_vars
SpecLong == InitLong /\ [][Next]_vars
SpecGroup == InitGroup /\ [][Next]_vars
SpecTime == InitTime /\ [][Next]_vars

\* =================================================================== claims
IsMapped(dest) == NotNull(dest) /\ Val(dest) \in DOMAIN city_coords

RECURSIVE SumCount(_)
SumCount(rows) ==
    IF rows = {} THEN 0
    ELSE LET r == CHOOSE x \in rows : TRUE IN r.count + SumCount(rows \ {r})

RECURSIVE SumOver(_, _)
SumOver(S, f) ==
    IF S = {} THEN 0
    ELSE LET x == CHOOSE y \in S : TRUE IN f[x] + SumOver(S \ {x}, f)

Abs(n) == IF n < 0 THEN -n ELSE n

\* q is num / den rounded to the nearest integer
Nearest(q, num, den) == 2 * Abs(q * den - num) <= den

\* the shipments the selection stands for: all of them under "All", else
\* those whose driver_id cell is filled and equal to the selected driver
SelectedRows ==
    IF selected_driver = All THEN DOMAIN shipments_df
    ELSE { i \in DOMAIN shipments_df :
             /\ NotNull(shipments_df[i].driver_id)
             /\ shipments_df[i].driver_id = selected_driver }

SelectedWith(s) == { i \in SelectedRows : shipments_df[i].status = s }

\* C1: every downstream output (Total Missing, Total Damaged, average
\* transit time, status pie, per-group incident table, Missing trend,
\* per-destination map table) counts the shipments of the selected driver
\* and no others; with "All" selected it counts every shipment.
C1_OutputsFromSelectedDriver ==
    /\ total_missing = Cardinality(SelectedWith("Missing"))
    /\ damaged_count = Cardinality(SelectedWith("Damaged"))
    /\ (avg_transit_text # NA => SelectedWith("Missing") # {})
    /\ \A s \in Statuses :
         SelectedWith(s) # {} =>
            [status |-> s, count |-> Cardinality(SelectedWith(s))] \in status_fig
    /\ \A row \in status_fig : row.count = Cardinality(SelectedWith(row.status))
    /\ \A row \in merged :
         /\ row.total = Cardinality({ i \in SelectedRows :
                shipments_df[i][breakdown_type] = row[breakdown_type] })
         /\ row.count = Cardinality({ i \in SelectedWith(row.status) :
                shipments_df[i][breakdown_type] = row[breakdown_type] })
    /\ \A row \in trend_data :
         row.count = Cardinality({ i \in SelectedWith("Missing") :
                shipments_df[i].delivery_date = row.delivery_date })
    /\ \A row \in map_fig :
         /\ row.total = Cardinality({ i \in SelectedRows :
                shipments_df[i].destination = row.destination })
         /\ row.incident = Some(Cardinality({ i \in SelectedWith(map_status_type) :
                shipments_df[i].destination = row.destination }))

\* a driver is selected, another driver has a Missing shipment, and the
\* selected driver's own incidents are on display
C1_Witness ==
    /\ selected_driver # All
    /\ NotNull(selected_driver)
    /\ \E i \in DOMAIN shipments_df :
         /\ shipments_df[i].driver_id # selected_driver
         /\ shipments_df[i].status = "Missing"
    /\ total_missing > 0
    /\ merged # {}

\* C2: for each status in {Missing, Damaged} the per-group incident counts
\* of the bar-chart table sum to the Total Missing / Total Damaged metric,
\* also when a grouping key is null in some shipments.
C2_GroupCountsSumToTotals ==
    /\ SumCount({ row \in merged : row.status = "Missing" }) = total_missing
    /\ SumCount({ row \in merged : row.status = "Damaged" }) = damaged_count

FilteredAt(dest) == { i \in DOMAIN filtered : filtered[i].destination = dest }

\* C3: the map table has exactly one row for each destination of the
\* filtered set; its percent_incident is (shipments of the selected status
\* at the destination) / (shipments at the destination) x 100 to two
\* decimals, 0 when the destination has none of that status; 3 of 10 is 30.00.
C3_MapPercentPerDestination ==
    /\ { row.destination : row \in map_fig } = Range(Column(filtered, "destination"))
    /\ Cardinality(map_fig) = Cardinality(Range(Column(filtered, "destination")))
    /\ \A row \in map_fig :
         LET total == Cardinality(FilteredAt(row.destination))
             incident == Cardinality({ i \in FilteredAt(row.destination) :
                                         filtered[i].status = map_status_type })
         IN  /\ row.total = total
             /\ row.incident = Some(incident)
             /\ NotNull(row.percent_incident)
             /\ Nearest(Val(row.percent_incident), incident * 10000, total)
             /\ (incident = 0 => row.percent_incident = Some(0))
    /\ Percent(3, 10) = 3000

\* one destination is shown with 0% and another with 33.33%
C3_Witness ==
    /\ \E row \in map_fig : row.incident = Some(0) /\ row.percent_incident = Some(0)
    /\ \E row \in map_fig : row.percent_incident = Some(3333)

\* C4: every row of the map table has total > 0, an incident count that
\* does not exceed the total, and a percent_incident between 0 and 100.
C4_MapPercentInRange ==
    \A row \in map_fig :
        /\ row.total > 0
        /\ NotNull(row.incident)
        /\ NotNull(row.percent_incident)
        /\ Val(row.incident) <= row.total
        /\ Val(row.percent_incident) >= 0
        /\ Val(row.percent_incident) <= 10000

\* the map shows a destination at 100% and another strictly between 0 and 100
C4_Witness ==
    /\ \E row \in map_fig : row.percent_incident = Some(10000)
    /\ \E row \in map_fig :
         Val(row.percent_incident) > 0 /\ Val(row.percent_incident) < 10000

FilteredMissing == { i \in DOMAIN filtered : filtered[i].status = "Missing" }

\* C5: the transit metric is "N/A" exactly when the filtered set has no
\* Missing shipment or one of its Missing shipments lacks pickup_time or
\* delivery_time; otherwise it is the mean of delivery_time - pickup_time
\* over the filtered Missing shipments, in days to one decimal.
C5_AvgTransitText ==
    LET unknown == \/ FilteredMissing = {}
                   \/ \E i \in FilteredMissing :
                        IsNull(filtered[i].pickup_time) \/ IsNull(filtered[i].delivery_time)
        transit == [ i \in FilteredMissing |->
                       Val(filtered[i].delivery_time) - Val(filtered[i].pickup_time) ]
    IN  IF unknown THEN avg_transit_text = NA
        ELSE /\ avg_transit_text # NA
             /\ Len(avg_transit_text) = 2
             /\ avg_transit_text[2] = "days"
             /\ Nearest(avg_transit_text[1], 10 * SumOver(FilteredMissing, transit),
                        Cardinality(FilteredMissing) * UnitsPerDay)

\* a number is shown although a shipment that is not Missing has no
\* delivery_time
C5_Witness ==
    /\ avg_transit_text # NA
    /\ \E i \in DOMAIN filtered :
         filtered[i].status # "Missing" /\ IsNull(filtered[i].delivery_time)

\* C6: after enrichment, in every shipment dest_lat and dest_lon are both
\* null or both non-null, and they are non-null exactly when the
\* destination is a key of city_coords; any interaction keeps it so.
C6_CoordinatePairs ==
    \A i \in DOMAIN shipments_df :
        /\ NotNull(shipments_df[i].dest_lat) <=> NotNull(shipments_df[i].dest_lon)
        /\ NotNull(shipments_df[i].dest_lat) <=> IsMapped(shipments_df[i].destination)

\* after an interaction the frame holds a shipment with coordinates and one
\* without
C6_Witness ==
    /\ selected_driver # All
    /\ map_status_type = "Damaged"
    /\ \E i \in DOMAIN shipments_df : NotNull(shipments_df[i].dest_lon)
    /\ \E i \in DOMAIN shipments_df : IsNull(shipments_df[i].dest_lat)

UnmappedInFile == { csv[i].destination : i \in { j \in DOMAIN csv : ~IsMapped(csv[j].destination) } }

C8_NoUnmappedRow ==
    \A row \in map_fig :
        /\ IsMapped(row.destination)
        /\ NotNull(row.lat)
        /\ NotNull(row.lon)

\* C8 amended: a destination outside city_coords keeps its row in the table
\* handed to the map, and that row has neither lat nor lon (there is no
\* position to draw it at); the row of a destination in city_coords carries
\* the coordinates of the lookup.
C8_UnmappedRowsHaveNoPosition ==
    /\ \A i \in DOMAIN filtered :
         \E row \in map_fig : row.destination = filtered[i].destination
    /\ \A row \in map_fig :
         IF IsMapped(row.destination)
         THEN /\ row.lat = Some(city_coords[Val(row.destination)].lat)
              /\ row.lon = Some(city_coords[Val(row.destination)].lon)
         ELSE IsNull(row.lat) /\ IsNull(row.lon)

\* the table holds a row with a position and a row without
C8_Witness ==
    /\ \E row \in map_fig : ~IsMapped(row.destination) /\ IsNull(row.lat)
    /\ \E row \in map_fig : IsMapped(row.destination) /\ NotNull(row.lat)

C10_TrendSumsToTotalMissing ==
    /\ \A i \in FilteredMissing :
         NotNull(filtered[i].delivery_date) =>
            \E row \in trend_data : row.delivery_date = filtered[i].delivery_date
    /\ \A row \in trend_data :
         \E i \in FilteredMissing : row.delivery_date = filtered[i].delivery_date
    /\ Cardinality(trend_data) = Cardinality({ row.delivery_date : row \in trend_data })
    /\ SumCount(trend_data) = total_missing

====
